---- MODULE Spec2Model ----
(***************************************************************************)
(* Model of src/app.py: the date-range chunk planner (chunk_date_range),   *)
(* the per-day aggregator (DailyAggregator) and the two script paths that  *)
(* drive it (CSV upload, chunked provider fetch).                          *)
(*                                                                         *)
(* Python values are encoded as records [k, n]:                            *)
(*   Num(n)  a number (int or float with integral value n)                 *)
(*   NaN     float('nan') - what pandas yields for an empty CSV cell       *)
(*   PyNone  None                                                          *)
(*   BadStr  a non-numeric string such as "abc"                            *)
(* Side and action arguments are strings; the Python values None and       *)
(* float('nan') in those positions are written "<None>" and "<nan>".       *)
(* Calendar dates are day numbers; the keys None and NaT are DateNone and  *)
(* NaT.                                                                    *)
(***************************************************************************)
EXTENDS Integers, Sequences, FiniteSets, TLC

VARIABLES
    daily_data,       \* DailyAggregator.daily_data: date -> day record
    raised,           \* the exception that ended the run, "none" while it runs
    hist,             \* the update() calls made so far, in order
    final_df,         \* the final per-day table, once built
    pc,               \* position of the script
    start_date,       \* sidebar input, as adjusted
    end_date,
    chunk_size_days,
    date_chunks,      \* the windows chunk_date_range returned
    uploaded_file,    \* sidebar input: the CSV file, or NoFile
    fetch_data,       \* sidebar input: fetch button pressed with an API key entered
    data_uploaded,
    input_data,       \* the CSV rows still to be fed, as prepared
    resolved_symbol,
    i,                \* index of the window in hand (1-based)
    chunk_list,       \* the records of the window in hand still to be fed
    resident,         \* whether chunk_list holds a batch (it is None otherwise)
    requested,        \* the windows requested from the provider, in order
    failed,           \* the indexes of the windows whose request failed
    delivered,        \* the records the provider returned, in order
    progress,         \* the fractions <<done, total>> emitted
    symbols,          \* the symbol passed to each get_range call, in order
    chunk_iter,       \* the records the object get_range returned still holds
    rec,              \* the loop variable of `for rec in chunk_list`: <<>> while unbound
    reported          \* the messages shown (st.warning / st.error)

aggVars == <<daily_data, raised, hist, final_df>>
planVars == <<pc, start_date, end_date, chunk_size_days, date_chunks>>
inputVars == <<uploaded_file, fetch_data>>
csvVars == <<data_uploaded, input_data>>
fetchVars ==
    <<resolved_symbol, i, chunk_list, resident, requested, failed, delivered, progress,
      symbols, chunk_iter, rec>>
appVars == <<inputVars, csvVars, fetchVars, reported>>
vars == <<aggVars, planVars, appVars>>

\* ------------------------------------------------------------------------
\* Python values
\* ------------------------------------------------------------------------
Num(x) == [k |-> "num", n |-> x]
NaN == [k |-> "nan", n |-> 0]
PyNone == [k |-> "none", n |-> 0]
BadStr == [k |-> "str", n |-> 0]

IsNum(v) == v.k = "num"

\* float.__add__ / float.__sub__: NaN is absorbing
FAdd(a, b) == IF IsNum(a) /\ IsNum(b) THEN Num(a.n + b.n) ELSE NaN
FSub(a, b) == IF IsNum(a) /\ IsNum(b) THEN Num(a.n - b.n) ELSE NaN

\* max(0.0, x): Python keeps the first argument unless a later one compares
\* greater; every comparison with NaN is False, so max(0.0, nan) = 0.0
Max0(x) == IF IsNum(x) /\ x.n > 0 THEN x ELSE Num(0)

\* str.lower() over the vocabulary of the model
Lower(s) ==
    CASE s \in {"Bid", "BID", "bid"} -> "bid"
      [] s \in {"Ask", "ASK", "ask"} -> "ask"
      [] s \in {"Add", "ADD", "add"} -> "add"
      [] s \in {"Cancel", "CANCEL", "cancel"} -> "cancel"
      [] s \in {"Trade", "TRADE", "trade"} -> "trade"
      [] s \in {"Fill", "FILL", "fill"} -> "fill"
      [] s \in {"Modify", "MODIFY", "modify"} -> "modify"
      [] s \in {"ClearBook", "clearBook", "CLEARBOOK", "clearbook"} -> "clearbook"
      [] s \in {"None", "none"} -> "none"
      [] s \in {"Hold", "hold"} -> "hold"
      [] s \in {"N", "n"} -> "n"
      [] OTHER -> s

\* truth value of a side/action argument in `x.lower() if x else "none"`
StrTruthy(s) == s \notin {"<None>", ""}

\* ------------------------------------------------------------------------
\* chunk_date_range
\* ------------------------------------------------------------------------
\* ChunkLoop without `if next_end > end_date: next_end = end_date`
RECURSIVE ChunkLoopNoClamp(_, _, _, _)
ChunkLoopNoClamp(chunks, current_start, end, chunk_size) ==
    IF current_start < end
    THEN LET next_end == current_start + chunk_size
         IN  ChunkLoopNoClamp(Append(chunks, <<current_start, next_end>>),
                              next_end + 1, end, chunk_size)
    ELSE chunks

\* the while loop of chunk_date_range, from current_start on
RECURSIVE ChunkLoop(_, _, _, _)
ChunkLoop(chunks, current_start, end, chunk_size) ==
    IF current_start < end
    THEN LET next_end == IF current_start + chunk_size > end
                         THEN end
                         ELSE current_start + chunk_size
         IN  ChunkLoop(Append(chunks, <<current_start, next_end>>),
                       next_end + 1, end, chunk_size)
    ELSE chunks

chunk_date_range(start, end, chunk_size) == ChunkLoop(<<>>, start, end, chunk_size)

\* ------------------------------------------------------------------------
\* DailyAggregator
\* ------------------------------------------------------------------------
DateNone == -2
NaT == -1

NewDay == [bid_volume |-> Num(0), ask_volume |-> Num(0), price |-> PyNone]

\* _ensure_date that starts a new day from a day already held instead of
\* from zero
EnsureDateCarry(dd, dateobj) ==
    IF dateobj \in DOMAIN dd
    THEN dd
    ELSE [d \in (DOMAIN dd) \cup {dateobj} |->
            IF d # dateobj THEN dd[d]
            ELSE IF DOMAIN dd = {} THEN NewDay
            ELSE dd[CHOOSE x \in DOMAIN dd : TRUE]]

\* _ensure_date: create the day lazily, leave an existing one alone
EnsureDate(dd, dateobj) ==
    IF dateobj \in DOMAIN dd
    THEN dd
    ELSE [d \in (DOMAIN dd) \cup {dateobj} |-> IF d = dateobj THEN NewDay ELSE dd[d]]

\* Decrease without the clamp: volume - size
DecreaseUnclamped(v, size) == FSub(v, size)

\* volume -= size, clamped: max(0.0, volume - size)
Decrease(v, size) == Max0(FSub(v, size))

\* ApplyAction with `=` for `+=` in the add branch: an add overwrites
ApplyActionOverwrite(day_info, side, action, size) ==
    CASE action \in {"add", "modify"} ->
           IF side = "bid"
           THEN [day_info EXCEPT !.bid_volume = size]
           ELSE IF side = "ask"
           THEN [day_info EXCEPT !.ask_volume = size]
           ELSE day_info
      [] action \in {"cancel", "trade", "fill"} ->
           IF side = "bid"
           THEN [day_info EXCEPT !.bid_volume = Decrease(@, size)]
           ELSE IF side = "ask"
           THEN [day_info EXCEPT !.ask_volume = Decrease(@, size)]
           ELSE day_info
      [] action = "clearbook" ->
           [day_info EXCEPT !.bid_volume = Num(0), !.ask_volume = Num(0)]
      [] OTHER -> day_info

\* the if/elif chain on (action, side) of update(), on one day's record
ApplyAction(day_info, side, action, size) ==
    CASE action \in {"add", "modify"} ->
           IF side = "bid"
           THEN [day_info EXCEPT !.bid_volume = FAdd(@, size)]
           ELSE IF side = "ask"
           THEN [day_info EXCEPT !.ask_volume = FAdd(@, size)]
           ELSE day_info
      [] action \in {"cancel", "trade", "fill"} ->
           IF side = "bid"
           THEN [day_info EXCEPT !.bid_volume = Decrease(@, size)]
           ELSE IF side = "ask"
           THEN [day_info EXCEPT !.ask_volume = Decrease(@, size)]
           ELSE day_info
      [] action = "clearbook" ->
           [day_info EXCEPT !.bid_volume = Num(0), !.ask_volume = Num(0)]
      [] OTHER -> day_info

\* `if price is not None: day_info["price"] = float(price)`
SetPrice(day_info, price) ==
    IF price = PyNone THEN day_info ELSE [day_info EXCEPT !.price = price]

\* update(dateobj, side, size, action, price), statement by statement; the
\* result holds the dictionary as the call leaves it and the exception it
\* raised ("none" when it returned)
UpdateResult(dd, dateobj, side, size, action, price) ==
    LET dd1 == EnsureDate(dd, dateobj)
        dd2 == [dd1 EXCEPT ![dateobj] = SetPrice(@, price)]
        sz == IF size = PyNone \/ size = Num(0) THEN Num(0) ELSE size
    IN  IF price = BadStr THEN [data |-> dd1, exc |-> "ValueError"]
        ELSE IF side = "<nan>" \/ action = "<nan>"
        THEN [data |-> dd2, exc |-> "AttributeError"]
        ELSE IF sz = BadStr THEN [data |-> dd2, exc |-> "ValueError"]
        ELSE LET sd == IF StrTruthy(side) THEN Lower(side) ELSE "none"
                 ac == IF StrTruthy(action) THEN Lower(action) ELSE "none"
             IN  [data |-> [dd2 EXCEPT ![dateobj] = ApplyAction(@, sd, ac, sz)],
                  exc |-> "none"]

Ev(d, side, action, size, price) ==
    [date |-> d, side |-> side, action |-> action, size |-> size, price |-> price]

UpdateEv(dd, e) == UpdateResult(dd, e.date, e.side, e.size, e.action, e.price)

\* ------------------------------------------------------------------------
\* to_dataframe and the derived columns
\* ------------------------------------------------------------------------
Ratio(a, b) == [k |-> "ratio", n |-> a, d |-> b]
NA == [k |-> "na", n |-> 0, d |-> 1]
NaNRatio == [k |-> "nan", n |-> 0, d |-> 1]
Inf == [k |-> "inf", n |-> 0, d |-> 1]

IsDate(d) == d >= 0

SetMin(S) == CHOOSE x \in S : \A y \in S : x <= y

\* sort_values("date"): ascending, the null keys (None, NaT) last; the two
\* null keys never occur in the same run
RECURSIVE SortedDates(_)
SortedDates(S) ==
    IF S = {} THEN <<>>
    ELSE LET real == {d \in S : IsDate(d)}
         IN  IF real # {}
             THEN <<SetMin(real)>> \o SortedDates(S \ {SetMin(real)})
             ELSE <<SetMin(S)>> \o SortedDates(S \ {SetMin(S)})

\* to_dataframe(): pd.DataFrame([]) has no "date" column, so sort_values
\* raises KeyError on an aggregator that holds no day
ToDataFrame(dd) ==
    IF DOMAIN dd = {}
    THEN [exc |-> "KeyError", rows |-> <<>>]
    ELSE LET order == SortedDates(DOMAIN dd)
         IN  [exc |-> "none",
              rows |-> [j \in 1..Len(order) |->
                          [date |-> order[j],
                           bid_volume |-> dd[order[j]].bid_volume,
                           ask_volume |-> dd[order[j]].ask_volume,
                           price |-> dd[order[j]].price]]]

\* (bid - ask) / (bid + ask).replace(0, pd.NA)
Imbalance(bid, ask) ==
    LET den == FAdd(bid, ask)
        num == FSub(bid, ask)
    IN  IF den = Num(0) THEN NA
        ELSE IF ~IsNum(den) THEN NaNRatio
        ELSE Ratio(num.n, den.n)

\* astype(float): None becomes NaN
AsFloat(p) == IF IsNum(p) THEN p ELSE NaN

\* the forward fill pct_change applies before dividing (fill_method="pad",
\* the default of the pandas releases the pinned provider client runs on)
RECURSIVE FFill(_, _)
FFill(rows, j) ==
    IF j = 0 THEN NaN
    ELSE IF IsNum(AsFloat(rows[j].price)) THEN rows[j].price
    ELSE FFill(rows, j - 1)

\* price.astype(float).pct_change() at row j
PctChange(rows, j) ==
    IF j = 1 THEN NaNRatio
    ELSE LET cur == FFill(rows, j)
             prev == FFill(rows, j - 1)
         IN  IF ~IsNum(cur) \/ ~IsNum(prev) THEN NaNRatio
             ELSE IF prev.n = 0 THEN (IF cur.n = 0 THEN NaNRatio ELSE Inf)
             ELSE Ratio(cur.n - prev.n, prev.n)

\* the two derived columns added to the table
Metrics(rows) ==
    [j \in 1..Len(rows) |->
        [date |-> rows[j].date,
         bid_volume |-> rows[j].bid_volume,
         ask_volume |-> rows[j].ask_volume,
         price |-> rows[j].price,
         imbalance |-> Imbalance(rows[j].bid_volume, rows[j].ask_volume),
         price_change |-> PctChange(rows, j)]]

NoTable == [built |-> FALSE, rows |-> <<>>]
Table(rows) == [built |-> TRUE, rows |-> rows]

\* a ratio equals a/b
RatioIs(r, a, b) == r.k = "ratio" /\ r.n * b = a * r.d

\* the row of a table for a date (the table has at most one)
HasRow(df, d) == \E j \in 1..Len(df.rows) : df.rows[j].date = d
RowOf(df, d) == df.rows[CHOOSE j \in 1..Len(df.rows) : df.rows[j].date = d]

\* ------------------------------------------------------------------------
\* The aggregator driven by a sequence of update() calls, then finalized
\* ------------------------------------------------------------------------
MaxEvents == 3

\* the calls the aggregator is exercised with: the well-formed events of a
\* two-day feed, and the absent / malformed field values either input path
\* hands to update()
Events ==
    {Ev(1, "Bid", "Add", Num(10), Num(100)),
     Ev(1, "Ask", "Add", Num(4), Num(100)),
     Ev(2, "Bid", "Trade", Num(3), Num(105)),
     Ev(2, "Ask", "Add", Num(4), PyNone)}
    \cup {Ev(1, sd, ac, Num(3), PyNone) :
            sd \in {"Bid", "ask"}, ac \in {"cancel", "Trade", "FILL"}}
    \cup {Ev(1, sd, "ClearBook", PyNone, PyNone) : sd \in {"Bid", "<None>", "<nan>"}}
    \cup {Ev(1, "Bid", "Modify", Num(2), PyNone),
          Ev(1, "Bid", "Hold", Num(2), Num(100)),
          Ev(1, "Bid", "<None>", Num(2), Num(105)),
          Ev(1, "N", "Add", Num(2), PyNone),
          Ev(1, "", "cancel", Num(2), PyNone)}
    \cup {Ev(1, "Bid", "Add", sz, PyNone) : sz \in {NaN, Num(-5), BadStr, PyNone}}
    \cup {Ev(1, "Bid", "cancel", NaN, PyNone),
          Ev(1, "Bid", "Add", Num(1), NaN),
          Ev(1, "Bid", "Add", Num(1), BadStr),
          Ev(2, "<nan>", "Add", Num(1), Num(100))}

AggInit ==
    /\ daily_data = <<>>
    /\ raised = "none"
    /\ hist = <<>>
    /\ final_df = NoTable

\* the planning variables while no script runs
PlanIdle ==
    /\ pc = "idle"
    /\ start_date = 0
    /\ end_date = 0
    /\ chunk_size_days = 0
    /\ date_chunks = <<>>

NoFile ==
    [present |-> FALSE, readable |-> FALSE, has_ts |-> FALSE, has_fields |-> FALSE,
     rows |-> <<>>]

\* the script's other variables before it runs
AppIdle ==
    /\ data_uploaded = FALSE
    /\ input_data = <<>>
    /\ resolved_symbol = "raw"
    /\ i = 0
    /\ chunk_list = <<>>
    /\ resident = FALSE
    /\ requested = <<>>
    /\ failed = {}
    /\ delivered = <<>>
    /\ progress = <<>>
    /\ symbols = <<>>
    /\ chunk_iter = <<>>
    /\ rec = <<>>
    /\ reported = {}

Init == AggInit /\ PlanIdle /\ AppIdle /\ uploaded_file = NoFile /\ fetch_data = FALSE

\* aggregator.update(...): one call; an exception ends the run
Update(e) ==
    /\ raised = "none"
    /\ ~final_df.built
    /\ Len(hist) < MaxEvents
    /\ LET r == UpdateEv(daily_data, e)
       IN  /\ daily_data' = r.data
           /\ raised' = r.exc
    /\ hist' = Append(hist, e)
    /\ UNCHANGED <<final_df, planVars, appVars>>

\* final_df = aggregator.to_dataframe(), then the two derived columns
Finalize ==
    /\ raised = "none"
    /\ ~final_df.built
    /\ LET t == ToDataFrame(daily_data)
       IN  /\ raised' = t.exc
           /\ final_df' = IF t.exc = "none" THEN Table(Metrics(t.rows)) ELSE NoTable
    /\ UNCHANGED <<daily_data, hist, planVars, appVars>>

Next ==
    \/ \E e \in Events : Update(e)
    \/ Finalize

Spec == Init /\ [][Next]_vars

\* ------------------------------------------------------------------------
\* Helpers of the properties
\* ------------------------------------------------------------------------
\* a sequence of events fed to an aggregator holding dd, up to the first
\* exception
RECURSIVE Replay(_, _)
Replay(dd, seq) ==
    IF seq = <<>> THEN [data |-> dd, exc |-> "none"]
    ELSE LET r == UpdateEv(dd, Head(seq))
         IN  IF r.exc # "none" THEN r ELSE Replay(r.data, Tail(seq))

\* the two volumes of a day, those of a fresh day when it is not held
VolOf(dd, d) ==
    IF d \in DOMAIN dd THEN <<dd[d].bid_volume, dd[d].ask_volume>>
    ELSE <<Num(0), Num(0)>>

NonNegative(v) == IsNum(v) /\ v.n >= 0

NormAction(e) == IF StrTruthy(e.action) /\ e.action # "<nan>" THEN Lower(e.action) ELSE "none"
NormSide(e) == IF StrTruthy(e.side) /\ e.side # "<nan>" THEN Lower(e.side) ELSE "none"

IsClearBook(e) == NormAction(e) = "clearbook"

\* an event that carries a price
Priced(e) == IsNum(e.price)

\* the price of the last priced event of a day in a sequence, NaN when none
RECURSIVE LastPriced(_, _, _)
LastPriced(seq, d, j) ==
    IF j = 0 THEN NaN
    ELSE IF seq[j].date = d /\ Priced(seq[j]) THEN seq[j].price
    ELSE LastPriced(seq, d, j - 1)

\* C1 (as claimed): every day held has bid_volume >= 0 and ask_volume >= 0
C1_VolumesNonNegative ==
    \A d \in DOMAIN daily_data :
        NonNegative(daily_data[d].bid_volume) /\ NonNegative(daily_data[d].ask_volume)

\* C7 (as claimed): update() never raises, whatever its arguments
C7_UpdateNeverFails == raised \notin {"AttributeError", "ValueError"}

\* C9 (as claimed): a clearbook at position k of the calls zeroes both volumes
\* of its day whatever its side, and the day's volumes after the whole
\* sequence are those of the events after k applied to a fresh aggregator
C9_ClearBookResets ==
    \A k \in 1..Len(hist) :
        IsClearBook(hist[k]) =>
            /\ VolOf(Replay(<<>>, SubSeq(hist, 1, k)).data, hist[k].date)
                 = <<Num(0), Num(0)>>
            /\ VolOf(daily_data, hist[k].date)
                 = VolOf(Replay(<<>>, SubSeq(hist, k + 1, Len(hist))).data, hist[k].date)

\* C10 (as claimed): a day's last price is the price of the most recent call
\* for that day that carried one, and absent before the first such call
C10_LastPriceIsLatest ==
    \A d \in DOMAIN daily_data :
        AsFloat(daily_data[d].price) = LastPriced(hist, d, Len(hist))

\* the three calls of the scenario, days d1 = 1 and d2 = 2
Scenario ==
    <<Ev(1, "Bid", "Add", Num(10), Num(100)),
      Ev(1, "Ask", "Add", Num(4), Num(100)),
      Ev(2, "Bid", "Trade", Num(3), Num(105))>>

ScenarioFinalized == hist = Scenario /\ final_df.built

\* the d1 row of the scenario but for its imbalance: 10, 4, price 100
ScenarioDay1 ==
    /\ HasRow(final_df, 1)
    /\ RowOf(final_df, 1).bid_volume = Num(10)
    /\ RowOf(final_df, 1).ask_volume = Num(4)
    /\ RowOf(final_df, 1).price = Num(100)

\* C5 (as claimed): the scenario yields d1 = (10, 4, 0.6, 100) and
\* d2 = (bidVolume 7, askVolume 0, imbalance 1.0, price 105, priceChange 0.05)
C5_ScenarioAsClaimed ==
    ScenarioFinalized =>
        /\ ScenarioDay1
        /\ RatioIs(RowOf(final_df, 1).imbalance, 6, 10)
        /\ HasRow(final_df, 2)
        /\ RowOf(final_df, 2).bid_volume = Num(7)
        /\ RowOf(final_df, 2).ask_volume = Num(0)
        /\ RatioIs(RowOf(final_df, 2).imbalance, 1, 1)
        /\ RowOf(final_df, 2).price = Num(105)
        /\ RatioIs(RowOf(final_df, 2).price_change, 5, 100)

\* C5 (amended): the scenario yields exactly two rows, d1 = (10, 4,
\* imbalance 6/14, price 100) and d2 = (bidVolume 0, askVolume 0, imbalance
\* undefined, price 105, priceChange 0.05): d2 starts from zero and the trade
\* is clamped at 0
C5_Scenario ==
    ScenarioFinalized =>
        /\ Len(final_df.rows) = 2
        /\ ScenarioDay1
        /\ RatioIs(RowOf(final_df, 1).imbalance, 6, 14)
        /\ RowOf(final_df, 1).price_change = NaNRatio
        /\ HasRow(final_df, 2)
        /\ RowOf(final_df, 2).bid_volume = Num(0)
        /\ RowOf(final_df, 2).ask_volume = Num(0)
        /\ RowOf(final_df, 2).imbalance = NA
        /\ RowOf(final_df, 2).price = Num(105)
        /\ RatioIs(RowOf(final_df, 2).price_change, 5, 100)

C5_Witness == ScenarioFinalized /\ raised = "none"

\* the reorderings of a sequence
Perms(seq) ==
    {[j \in 1..Len(seq) |-> seq[f[j]]] :
        f \in {g \in [1..Len(seq) -> 1..Len(seq)] :
                 \A a, b \in 1..Len(seq) : g[a] = g[b] => a = b}}

IsDecrease(e) == NormAction(e) \in {"cancel", "trade", "fill"}

\* a well-formed add, cancel, trade or fill of day d with an integer size
VolumeEvent(e, d) ==
    /\ e.date = d
    /\ e.side # "<nan>"
    /\ NormAction(e) \in {"add", "cancel", "trade", "fill"}
    /\ IsNum(e.size)
    /\ e.price # BadStr

AllVolumeEvents(seq, d) == \A j \in 1..Len(seq) : VolumeEvent(seq[j], d)

\* the volume an event's side holds in dd (0 for a side that is neither)
SideVolume(dd, e) ==
    IF NormSide(e) = "bid" THEN VolOf(dd, e.date)[1]
    ELSE IF NormSide(e) = "ask" THEN VolOf(dd, e.date)[2]
    ELSE Num(0)

\* some cancel, trade or fill of the sequence exceeds the volume its side
\* holds when it is applied, so that the clamp at 0 takes effect
RECURSIVE Clamps(_, _)
Clamps(dd, seq) ==
    IF seq = <<>> THEN FALSE
    ELSE LET e == Head(seq)
         IN  \/ /\ IsDecrease(e)
                /\ NormSide(e) \in {"bid", "ask"}
                /\ FSub(SideVolume(dd, e), e.size).n < 0
             \/ Clamps(UpdateEv(dd, e).data, Tail(seq))

MaxStart == 1
MaxSpan == 6
MaxChunk == 4

ChunkInit ==
    /\ AggInit
    /\ AppIdle
    /\ uploaded_file = NoFile
    /\ fetch_data = FALSE
    /\ pc = "inputs"
    /\ start_date \in 0..MaxStart
    /\ end_date \in 0..(MaxStart + MaxSpan)
    /\ chunk_size_days \in 1..MaxChunk
    /\ date_chunks = <<>>

\* `if start_date >= end_date: end_date = start_date + timedelta(days=1)`
AdjustRange ==
    /\ pc = "inputs"
    /\ end_date' = IF start_date >= end_date THEN start_date + 1 ELSE end_date
    /\ pc' = "adjusted"
    /\ reported' = IF start_date >= end_date THEN reported \cup {"range_adjusted"} ELSE reported
    /\ UNCHANGED <<aggVars, start_date, chunk_size_days, date_chunks>>
    /\ UNCHANGED <<inputVars, csvVars, fetchVars>>

\* date_chunks = chunk_date_range(start_date, end_date, chunk_size_days)
Plan ==
    /\ pc = "adjusted"
    /\ date_chunks' = chunk_date_range(start_date, end_date, chunk_size_days)
    /\ pc' = "planned"
    /\ UNCHANGED <<aggVars, start_date, end_date, chunk_size_days, appVars>>

ChunkNext == AdjustRange \/ Plan

SpecChunk == ChunkInit /\ [][ChunkNext]_vars

\* the windows of the plan that hold date d
WindowsOf(d) == {w \in 1..Len(date_chunks) : date_chunks[w][1] <= d /\ d <= date_chunks[w][2]}

\* C4 (as claimed): the plan covers [start, end] exactly once - every date of
\* the range lies in exactly one window - and the last window ends at end
C4_CoversExactlyOnce ==
    pc = "planned" =>
        /\ \A d \in start_date..end_date : Cardinality(WindowsOf(d)) = 1
        /\ Len(date_chunks) > 0
        /\ date_chunks[Len(date_chunks)][2] = end_date

\* ------------------------------------------------------------------------
\* The script: CSV path, then the chunked fetch path
\* ------------------------------------------------------------------------
TicksPerDay == 2
TsAbsent == -2
TsUnparsable == -1

\* pd.to_datetime(ts, errors="coerce") followed by .date(): a timestamp that
\* cannot be parsed becomes NaT, and NaT.date() is NaT
ToDate(ts) == IF ts < 0 THEN NaT ELSE ts \div TicksPerDay

FirstTick(d) == d * TicksPerDay
LastTick(d) == d * TicksPerDay + (TicksPerDay - 1)

Row(ts, side, action, size, price) ==
    [ts |-> ts, side |-> side, action |-> action, size |-> size, price |-> price]

\* ---- CSV path -----------------------------------------------------------
MaxRows == 2

\* the rows a CSV file is made of: cells as pandas reads them (an empty cell
\* is NaN; an empty or unparsable ts_event cell is TsUnparsable)
CsvRowSet ==
    {Row(FirstTick(1), "Bid", "Add", Num(5), Num(100)),
     Row(FirstTick(0), "Ask", "Add", Num(3), NaN),
     Row(TsUnparsable, "Bid", "Add", Num(2), Num(100)),
     Row(LastTick(0), "<nan>", "Add", NaN, NaN)}

SeqsUpTo(S, n) == UNION {[1..m -> S] : m \in 0..n}

CsvFiles ==
    {[present |-> TRUE, readable |-> FALSE, has_ts |-> FALSE, has_fields |-> FALSE,
      rows |-> <<>>]}
    \cup {[present |-> TRUE, readable |-> TRUE, has_ts |-> t, has_fields |-> TRUE,
           rows |-> r] : t \in BOOLEAN, r \in SeqsUpTo(CsvRowSet, MaxRows)}
    \cup {[present |-> TRUE, readable |-> TRUE, has_ts |-> TRUE, has_fields |-> FALSE,
           rows |-> <<Row(FirstTick(0), "", "", PyNone, PyNone)>>]}

\* row a sorts before row b on ts_event (NaT last)
Before(a, b) == a.ts >= 0 /\ (b.ts < 0 \/ a.ts < b.ts)

RECURSIVE InsertRow(_, _)
InsertRow(sorted, r) ==
    IF sorted = <<>> THEN <<r>>
    ELSE IF Before(r, Head(sorted)) THEN <<r>> \o sorted
    ELSE <<Head(sorted)>> \o InsertRow(Tail(sorted), r)

\* sort_values("ts_event") on the few rows of the model (ties keep file order)
RECURSIVE SortRows(_)
SortRows(rows) ==
    IF rows = <<>> THEN <<>>
    ELSE InsertRow(SortRows(SubSeq(rows, 1, Len(rows) - 1)), rows[Len(rows)])

\* the arguments the row loop reads with row.get(...): the date column exists
\* only when ts_event does; a missing column yields the default
CsvArgs(r, has_ts, has_fields) ==
    Ev(IF has_ts THEN ToDate(r.ts) ELSE DateNone,
       IF has_fields THEN r.side ELSE "None",
       IF has_fields THEN r.action ELSE "None",
       IF has_fields THEN r.size ELSE Num(0),
       IF has_fields THEN r.price ELSE PyNone)

\* ---- provider -----------------------------------------------------------
ProviderRec(ts, side, action, size, price) ==
    [ts_event |-> ts, side |-> side, action |-> action, size |-> size, price |-> price]

\* what client.timeseries.get_range may return for the window (c_start, c_end):
\* records of the window's dates, some without a usable timestamp
Batches(c_start, c_end) ==
    {<<>>,
     <<ProviderRec(FirstTick(c_start), "Bid", "Add", Num(5), Num(100))>>,
     <<ProviderRec(FirstTick(c_start), "Bid", "Add", Num(5), Num(100)),
       ProviderRec(LastTick(c_end), "Ask", "Add", Num(3), Num(101))>>,
     <<ProviderRec(TsAbsent, "Bid", "Add", Num(7), Num(90)),
       ProviderRec(LastTick(c_end), "Bid", "Cancel", Num(1), PyNone)>>,
     <<ProviderRec(TsUnparsable, "Ask", "Add", Num(9), Num(95))>>}

MaxAppEnd == 5
MaxAppChunk == 2

AppInit ==
    /\ AggInit
    /\ AppIdle
    /\ pc = "inputs"
    /\ start_date = 0
    /\ end_date \in 0..MaxAppEnd
    /\ chunk_size_days \in 1..MaxAppChunk
    /\ date_chunks = <<>>
    /\ uploaded_file \in {NoFile} \cup CsvFiles
    /\ fetch_data \in BOOLEAN

\* `if uploaded_file:` pd.read_csv, the ts_event / date columns and the sort
ReadCsv ==
    /\ pc = "adjusted"
    /\ IF ~uploaded_file.present
       THEN /\ pc' = "fetch_check"
            /\ UNCHANGED <<csvVars, reported>>
       ELSE IF ~uploaded_file.readable
       THEN /\ reported' = reported \cup {"csv_read_error"}
            /\ pc' = "fetch_check"
            /\ UNCHANGED csvVars
       ELSE /\ data_uploaded' = TRUE
            /\ input_data' = IF uploaded_file.has_ts
                             THEN SortRows(uploaded_file.rows)
                             ELSE uploaded_file.rows
            /\ reported' = IF uploaded_file.has_ts THEN reported
                           ELSE reported \cup {"csv_missing_ts"}
            /\ pc' = "csv_loop"
    /\ UNCHANGED <<aggVars, start_date, end_date, chunk_size_days, date_chunks>>
    /\ UNCHANGED <<inputVars, fetchVars>>

\* one iteration of `for idx, row in input_data.iterrows()`: update() is
\* called for every row; an exception is not caught and ends the script
CsvRow ==
    /\ pc = "csv_loop"
    /\ input_data # <<>>
    /\ LET e == CsvArgs(Head(input_data), uploaded_file.has_ts, uploaded_file.has_fields)
           r == UpdateEv(daily_data, e)
       IN  /\ daily_data' = r.data
           /\ raised' = r.exc
           /\ hist' = Append(hist, e)
           /\ pc' = IF r.exc = "none" THEN "csv_loop" ELSE "crashed"
    /\ input_data' = Tail(input_data)
    /\ UNCHANGED <<final_df, start_date, end_date, chunk_size_days, date_chunks>>
    /\ UNCHANGED <<inputVars, data_uploaded, fetchVars, reported>>

\* after the loop: to_dataframe() and the derived columns
CsvFinal ==
    /\ pc = "csv_loop"
    /\ input_data = <<>>
    /\ LET t == ToDataFrame(daily_data)
       IN  /\ raised' = t.exc
           /\ final_df' = IF t.exc = "none" THEN Table(Metrics(t.rows)) ELSE NoTable
           /\ pc' = IF t.exc = "none" THEN "fetch_check" ELSE "crashed"
    /\ UNCHANGED <<daily_data, hist, start_date, end_date, chunk_size_days, date_chunks>>
    /\ UNCHANGED appVars

\* `if fetch_data and api_key and not data_uploaded:`
FetchCheck ==
    /\ pc = "fetch_check"
    /\ pc' = IF fetch_data /\ ~data_uploaded THEN "resolve" ELSE "done"
    /\ UNCHANGED <<aggVars, start_date, end_date, chunk_size_days, date_chunks, appVars>>

\* client.symbology.resolve in its own try: an exception, an empty result and a
\* result without the symbol (KeyError, caught) all leave the raw symbol
Resolve ==
    /\ pc = "resolve"
    /\ \E outcome \in {"exception", "empty", "no_symbol", "resolved"} :
         /\ resolved_symbol' = IF outcome = "resolved" THEN "instrument_id" ELSE "raw"
         /\ reported' = IF outcome = "resolved" THEN reported
                        ELSE reported \cup {"symbology_warning"}
    /\ pc' = "plan"
    /\ UNCHANGED <<aggVars, start_date, end_date, chunk_size_days, date_chunks>>
    /\ UNCHANGED <<inputVars, csvVars, i, chunk_list, resident, requested, failed,
                   delivered, progress, symbols, chunk_iter, rec>>

\* aggregator = DailyAggregator(); date_chunks = chunk_date_range(...)
PlanChunks ==
    /\ pc = "plan"
    /\ date_chunks' = chunk_date_range(start_date, end_date, chunk_size_days)
    /\ i' = 1
    /\ pc' = IF date_chunks' = <<>> THEN "build" ELSE "request"
    /\ UNCHANGED <<aggVars, start_date, end_date, chunk_size_days>>
    /\ UNCHANGED <<inputVars, csvVars, resolved_symbol, chunk_list, resident, requested,
                   failed, delivered, progress, symbols, chunk_iter, rec, reported>>

\* chunk_iter = client.timeseries.get_range(...); chunk_list = list(chunk_iter):
\* the provider returns a batch, or the call raises and the exception leaves
\* the loop for the handler of the whole fetch block. The object returned is
\* the provider library's: it may be a store that keeps the records it was
\* iterated over, or a one-shot iterator that list() leaves empty
Request ==
    /\ pc = "request"
    /\ requested' = Append(requested, date_chunks[i])
    /\ symbols' = Append(symbols, resolved_symbol)
    /\ \/ \E b \in Batches(date_chunks[i][1], date_chunks[i][2]) :
            /\ chunk_list' = b
            /\ chunk_iter' \in {b, <<>>}
            /\ resident' = TRUE
            /\ delivered' = delivered \o b
            /\ pc' = "feed"
            /\ UNCHANGED failed
       \/ /\ failed' = failed \cup {i}
          /\ pc' = "except"
          /\ UNCHANGED <<chunk_list, chunk_iter, resident, delivered>>
    /\ UNCHANGED <<aggVars, start_date, end_date, chunk_size_days, date_chunks>>
    /\ UNCHANGED <<inputVars, csvVars, resolved_symbol, i, progress, rec, reported>>

\* one iteration of `for rec in chunk_list`: a record without ts_event is
\* skipped (d is None); any other record reaches update()
Feed ==
    /\ pc = "feed"
    /\ chunk_list # <<>>
    /\ LET this == Head(chunk_list)
           e == Ev(ToDate(this.ts_event), this.side, this.action, this.size, this.price)
           r == UpdateEv(daily_data, e)
       IN  IF this.ts_event = TsAbsent
           THEN UNCHANGED <<daily_data, raised, hist, pc>>
           ELSE /\ daily_data' = r.data
                /\ hist' = Append(hist, e)
                /\ raised' = r.exc
                /\ pc' = IF r.exc = "none" THEN "feed" ELSE "except"
    /\ chunk_list' = Tail(chunk_list)
    /\ rec' = <<Head(chunk_list)>>
    /\ UNCHANGED <<final_df, start_date, end_date, chunk_size_days, date_chunks>>
    /\ UNCHANGED <<inputVars, csvVars, resolved_symbol, i, resident, requested, failed,
                   delivered, progress, symbols, chunk_iter, reported>>

\* chunk_list = None: only this name is cleared; chunk_iter and rec keep
\* what they refer to
Discard ==
    /\ pc = "feed"
    /\ chunk_list = <<>>
    /\ resident' = FALSE
    /\ pc' = "progress"
    /\ UNCHANGED <<aggVars, start_date, end_date, chunk_size_days, date_chunks>>
    /\ UNCHANGED <<inputVars, csvVars, resolved_symbol, i, chunk_list, requested, failed,
                   delivered, progress, symbols, chunk_iter, rec, reported>>

\* a progress call that reports the count of windows before the one in hand
ProgressZeroBased ==
    /\ pc = "progress"
    /\ progress' = Append(progress, <<i - 1, Len(date_chunks)>>)
    /\ i' = i + 1
    /\ pc' = IF i < Len(date_chunks) THEN "request" ELSE "build"
    /\ UNCHANGED <<aggVars, start_date, end_date, chunk_size_days, date_chunks>>
    /\ UNCHANGED <<inputVars, csvVars, resolved_symbol, chunk_list, resident, requested,
                   failed, delivered, symbols, chunk_iter, rec, reported>>

\* chunk_progress.progress((i + 1) / total_chunks), then the next window
Progress ==
    /\ pc = "progress"
    /\ progress' = Append(progress, <<i, Len(date_chunks)>>)
    /\ i' = i + 1
    /\ pc' = IF i < Len(date_chunks) THEN "request" ELSE "build"
    /\ UNCHANGED <<aggVars, start_date, end_date, chunk_size_days, date_chunks>>
    /\ UNCHANGED <<inputVars, csvVars, resolved_symbol, chunk_list, resident, requested,
                   failed, delivered, symbols, chunk_iter, rec, reported>>

\* final_df = aggregator.to_dataframe(); data_uploaded = True; derived columns
Build ==
    /\ pc = "build"
    /\ LET t == ToDataFrame(daily_data)
       IN  /\ raised' = t.exc
           /\ IF t.exc = "none"
              THEN /\ final_df' = Table(Metrics(t.rows))
                   /\ data_uploaded' = TRUE
                   /\ pc' = "done"
              ELSE /\ pc' = "except"
                   /\ UNCHANGED <<final_df, data_uploaded>>
    /\ UNCHANGED <<daily_data, hist, start_date, end_date, chunk_size_days,
                   date_chunks>>
    /\ UNCHANGED <<inputVars, input_data, fetchVars, reported>>

\* except Exception as e: st.error(f"Error fetching data: {e}")
Except ==
    /\ pc = "except"
    /\ reported' = reported \cup {"fetch_error"}
    /\ pc' = "done"
    /\ UNCHANGED <<aggVars, start_date, end_date, chunk_size_days, date_chunks>>
    /\ UNCHANGED <<inputVars, csvVars, fetchVars>>

AppNext ==
    \/ AdjustRange
    \/ ReadCsv
    \/ CsvRow
    \/ CsvFinal
    \/ FetchCheck
    \/ Resolve
    \/ PlanChunks
    \/ Request
    \/ Feed
    \/ Discard
    \/ Progress
    \/ Build
    \/ Except

SpecApp == AppInit /\ [][AppNext]_vars

\* the dates of window w of the plan
WindowDates(w) == date_chunks[w][1]..date_chunks[w][2]

\* the update() arguments of the provider records that carry a timestamp
RECURSIVE DeliveredEvents(_)
DeliveredEvents(recs) ==
    IF recs = <<>> THEN <<>>
    ELSE LET this == Head(recs)
         IN  (IF this.ts_event = TsAbsent THEN <<>>
              ELSE <<Ev(ToDate(this.ts_event), this.side, this.action, this.size, this.price)>>)
             \o DeliveredEvents(Tail(recs))

\* the table of the records the provider delivered
DeliveredTable ==
    LET t == ToDataFrame(Replay(<<>>, DeliveredEvents(delivered)).data)
    IN  Metrics(t.rows)

\* C2 (as claimed): when the request of a window fails, the failure is
\* reported and every window of the plan is still requested, in order
C2_FailureDoesNotAbort ==
    (pc = "done" /\ failed # {}) =>
        /\ "fetch_error" \in reported
        /\ requested = date_chunks

\* C3 (as claimed): when the request of a window fails after an earlier one
\* was retrieved, a final table is still built, without a row for any date of
\* the failed window and with the rows of what the other windows delivered
C3_TableDespiteFailure ==
    (pc = "done" /\ failed # {} /\ Len(requested) > 1) =>
        /\ final_df.built
        /\ \A w \in failed : \A d \in WindowDates(w) : ~HasRow(final_df, d)
        /\ final_df.rows = DeliveredTable

\* C6 (as claimed): update() is never called for an event whose timestamp is
\* absent or unparsable, and no day record exists for such an event
C6_UntimedEventsDropped ==
    /\ \A j \in 1..Len(hist) : IsDate(hist[j].date)
    /\ \A d \in DOMAIN daily_data : IsDate(d)

\* ------------------------------------------------------------------------
\* Properties of the plan (SpecChunk)
\* ------------------------------------------------------------------------
\* the calendar days a window covers, both bounds included
DaysCovered(w) == date_chunks[w][2] - date_chunks[w][1] + 1

\* C11 (as claimed): with chunk_size_days = 1 a range of n calendar days
\* yields n windows, each a single day (window start = window end)
C11_SingleDayWindows ==
    (pc = "planned" /\ chunk_size_days = 1) =>
        /\ Len(date_chunks) = end_date - start_date + 1
        /\ \A w \in 1..Len(date_chunks) : date_chunks[w][1] = date_chunks[w][2]

C18_WindowsWellFormed ==
    pc = "planned" =>
        /\ Len(date_chunks) >= 1
        /\ \A w \in 1..Len(date_chunks) :
             /\ date_chunks[w][1] <= date_chunks[w][2]
             /\ DaysCovered(w) <= chunk_size_days
        /\ \A w \in 2..Len(date_chunks) :
             date_chunks[w][1] = date_chunks[w - 1][2] + 1

\* ------------------------------------------------------------------------
\* Properties of the aggregator and its table (Spec)
\* ------------------------------------------------------------------------
\* the dates passed to update() so far
DatesSeen == {hist[j].date : j \in 1..Len(hist)}

\* the calls of a sequence that bear date d, in order
RECURSIVE OfDate(_, _)
OfDate(seq, d) ==
    IF seq = <<>> THEN <<>>
    ELSE (IF Head(seq).date = d THEN <<Head(seq)>> ELSE <<>>) \o OfDate(Tail(seq), d)

\* C14 (as claimed): to_dataframe() never fails, not even on an aggregator
\* that saw no event, and returns one row per date passed to update(), in
\* strictly ascending date order
C14_TablePerDate ==
    /\ raised # "KeyError"
    /\ final_df.built =>
         /\ {final_df.rows[j].date : j \in 1..Len(final_df.rows)} = DatesSeen
         /\ Len(final_df.rows) = Cardinality(DatesSeen)
         /\ \A j \in 2..Len(final_df.rows) :
              final_df.rows[j - 1].date < final_df.rows[j].date

Undefined(r) == r.k \in {"na", "nan"}

\* C15 (as claimed): in every row of the final table the imbalance is
\* undefined exactly when bid_volume + ask_volume = 0, and is otherwise
\* (bid - ask) / (bid + ask), a value in [-1, 1]
C15_Imbalance ==
    \A j \in 1..Len(final_df.rows) :
        LET row == final_df.rows[j]
            total == FAdd(row.bid_volume, row.ask_volume)
            diff == FSub(row.bid_volume, row.ask_volume)
        IN  /\ Undefined(row.imbalance) <=> total = Num(0)
            /\ ~Undefined(row.imbalance) =>
                 /\ RatioIs(row.imbalance, diff.n, total.n)
                 /\ row.imbalance.n * row.imbalance.n
                      <= row.imbalance.d * row.imbalance.d

\* the size the transition table works with: an absent size counts as 0
TableSize(e) == IF IsNum(e.size) THEN e.size.n ELSE 0

PosPart(x) == IF x > 0 THEN x ELSE 0

\* the transition table of update(): the two volumes after event e
TableEffect(vol, e) ==
    LET ac == NormAction(e)
        sd == NormSide(e)
        sz == TableSize(e)
        b == vol[1].n
        a == vol[2].n
    IN  IF ac = "clearbook" THEN <<Num(0), Num(0)>>
        ELSE IF sd \notin {"bid", "ask"} THEN vol
        ELSE IF ac \in {"add", "modify"}
        THEN (IF sd = "bid" THEN <<Num(b + sz), vol[2]>> ELSE <<vol[1], Num(a + sz)>>)
        ELSE IF ac \in {"cancel", "trade", "fill"}
        THEN (IF sd = "bid" THEN <<Num(PosPart(b - sz)), vol[2]>>
              ELSE <<vol[1], Num(PosPart(a - sz))>>)
        ELSE vol

\* an event all of whose fields are values or absent (no unparsable text)
TableCovers(e) == e.size # BadStr /\ e.price # BadStr

\* C17 (as claimed): every update() changes the volumes of its day as the
\* transition table says
C17_TransitionTable ==
    \A k \in 1..Len(hist) :
        LET before == VolOf(Replay(<<>>, SubSeq(hist, 1, k - 1)).data, hist[k].date)
            after == VolOf(Replay(<<>>, SubSeq(hist, 1, k)).data, hist[k].date)
        IN  (TableCovers(hist[k]) /\ IsNum(before[1]) /\ IsNum(before[2])) =>
                after = TableEffect(before, hist[k])

\* C20: the aggregator holds exactly the dates passed to update(), and each
\* day's record is what that day's own calls make of a fresh record with
\* bid_volume = 0, ask_volume = 0 and no price, whatever the other days hold
C20_DaysIndependent ==
    /\ DOMAIN daily_data = DatesSeen
    /\ \A d \in DOMAIN daily_data :
         daily_data[d] = Replay(<<>>, OfDate(hist, d)).data[d]
    /\ \A d \in DOMAIN daily_data :
         (\A j \in 1..Len(hist) :
             hist[j].date = d =>
                 /\ hist[j].price = PyNone
                 /\ NormSide(hist[j]) \notin {"bid", "ask"}
                 /\ ~IsClearBook(hist[j])
                 /\ hist[j].side # "<nan>")
         => daily_data[d] = [bid_volume |-> Num(0), ask_volume |-> Num(0),
                             price |-> PyNone]

\* day 2 is created, by an ask add, after day 1 took a bid of 10
C20_Witness ==
    /\ Len(hist) = 2
    /\ hist[2].date = 2
    /\ DOMAIN daily_data = {1, 2}
    /\ daily_data[1].bid_volume = Num(10)
    /\ daily_data[2] = [bid_volume |-> Num(0), ask_volume |-> Num(4), price |-> PyNone]

\* ------------------------------------------------------------------------
\* Properties of the fetch loop (SpecApp)
\* ------------------------------------------------------------------------
\* C13 (as claimed): when symbol resolution fails the run goes on with the raw
\* symbol: every request carries it, and the run ends with every window of
\* the plan requested
C13_ResolutionNeverFatal ==
    "symbology_warning" \in reported =>
        /\ resolved_symbol = "raw"
        /\ \A j \in 1..Len(symbols) : symbols[j] = "raw"
        /\ pc = "done" => (date_chunks # <<>> /\ requested = date_chunks)

\* C16: windows are requested in planned order, window i + 1 only after every
\* timed event of windows 1..i has been fed, in the order received; progress
\* j/total is emitted once after window j, and a table built by the fetch
\* follows progress total/total
C16_SequentialWindows ==
    /\ Len(requested) <= Len(date_chunks)
    /\ requested = SubSeq(date_chunks, 1, Len(requested))
    /\ \A j \in 1..Len(progress) : progress[j] = <<j, Len(date_chunks)>>
    /\ Len(progress) <= Len(requested)
    /\ Len(requested) <= Len(progress) + 1
    /\ pc = "request" =>
         /\ Len(requested) = i - 1
         /\ Len(progress) = i - 1
         /\ hist = DeliveredEvents(delivered)
    /\ pc = "feed" =>
         /\ Len(requested) = i
         /\ Len(progress) = i - 1
         /\ hist \o DeliveredEvents(chunk_list) = DeliveredEvents(delivered)
    /\ pc = "progress" =>
         /\ Len(requested) = i
         /\ Len(progress) = i - 1
         /\ hist = DeliveredEvents(delivered)
    /\ (requested # <<>> /\ final_df.built) =>
         /\ Len(progress) = Len(date_chunks)
         /\ progress[Len(progress)] = <<Len(date_chunks), Len(date_chunks)>>
         /\ hist = DeliveredEvents(delivered)

\* three windows, each delivering events, all processed and the table built
C16_Witness ==
    /\ pc = "done"
    /\ final_df.built
    /\ Len(date_chunks) = 3
    /\ Len(progress) = 3
    /\ Len(hist) >= 4

\* C19 (as claimed): when a window is requested the script holds no batch and
\* no event of an earlier window
C19_OneBatchResident ==
    pc = "request" =>
        /\ ~resident
        /\ chunk_list = <<>>
        /\ chunk_iter = <<>>
        /\ rec = <<>>

====
